---- MODULE Spec2Model ----
(***************************************************************************)
(* Model of the bit-serial sealed-bid auction circuit of src/src/lib.rs     *)
(* (auction_circuit) together with the caller of its test                   *)
(* (tests::auction_circuit_works), which encrypts the bids bit by bit,     *)
(* most significant bit first, and decrypts the two outputs.                *)
(*                                                                         *)
(* One action is one step of auction_circuit: every call of a gate of the  *)
(* server key (and, or, not) is a step of its own, so that a failing gate, *)
(* the number of gate calls and the order of reads and writes of the       *)
(* scratch vectors are all visible.  Loop counters i and j are 0-based as  *)
(* in the source; TLA+ sequences are 1-based, hence the "+ 1" in indices.  *)
(***************************************************************************)
EXTENDS Integers, Sequences, FiniteSets, TLC

\* Largest bidder_count and largest bid_bits explored.
MaxBidders == 3
MaxBits == 2

\* Encryption randomness, abstracted to one bit per ciphertext.
Randomness == {0, 1}

VARIABLES
    bid_amounts,     \* the caller's plaintext bids (test: `bids`)
    shape,           \* how the matrix handed to the circuit is shaped
    seed,            \* the randomness the caller encrypted with
    bids,            \* parameter `bids`: the encrypted bid matrix
    bid_bits,        \* parameter `bid_bits`
    bidder_count,    \* parameter `bidder_count`
    w, s, amount,    \* the three vectors of auction_circuit
    b, b_not, c0, c1,\* the locals of one round
    i, j,            \* loop counters
    pc,              \* position in auction_circuit
    andCalls, orCalls, notCalls,   \* gate calls issued so far
    faults,          \* gate calls that returned Err
    placeholderUsed, \* a Placeholder was handed to a gate
    staleRead,       \* an s[j] was read before being written in its round
    sWritten,        \* the bidders whose s[j] was written in this round
    w_begin,         \* the mask w as it was when the current round began
    first            \* decrypted outputs of the previous run, if any

inputs   == <<bid_amounts, shape, seed, bids, bid_bits, bidder_count>>
counters == <<andCalls, orCalls, notCalls>>
vars     == <<bid_amounts, shape, seed, bids, bid_bits, bidder_count,
              w, s, amount, b, b_not, c0, c1, i, j, pc,
              andCalls, orCalls, notCalls, faults,
              placeholderUsed, staleRead, sWritten, w_begin, first>>

----------------------------------------------------------------------------
\* Ciphertexts

Placeholder == [kind |-> "Placeholder", val |-> FALSE, rnd |-> 0]
Trivial(v) == [kind |-> "Trivial", val |-> v, rnd |-> 0]
\* A local that is not in scope.
None == [kind |-> "None", val |-> FALSE, rnd |-> 0]

Real(ct) == ct.kind \in {"Enc", "Trivial"}

Pow2(n) == 2 ^ n

\* bit i (0 = most significant) of a bid of the given width
BitAt(bid, k, width) == (bid \div Pow2(width - 1 - k)) % 2

Encrypt(v, r) == [kind |-> "Enc", val |-> v, rnd |-> r]

EncryptBid(bid, width, r) ==
    [k \in 1..width |-> Encrypt(BitAt(bid, k - 1, width) # 0, (r + k) % 2)]

EncryptBids(plain, width, r) ==
    [n \in DOMAIN plain |-> EncryptBid(plain[n], width, (r + n) % 2)]

Decrypt(ct) == ct.val

DecryptAll(cts) == [k \in DOMAIN cts |-> Decrypt(cts[k])]

\* An OR whose result is wrong when the noise of both operands is high.
GateOrNoisy(x, y) ==
    Encrypt((x.val \/ y.val) # (x.rnd = 1 /\ y.rnd = 1), (x.rnd + y.rnd) % 2)

\* The gates of the server key, on real ciphertexts.
GateAnd(x, y) == Encrypt(x.val /\ y.val, (x.rnd + y.rnd) % 2)
GateOr(x, y) == Encrypt(x.val \/ y.val, (x.rnd + y.rnd) % 2)
GateNot(x) == Encrypt(~x.val, x.rnd)

----------------------------------------------------------------------------
\* The matrices a caller can hand over

Shapes == {"exact", "missing_row", "short_rows"}

Shaped(m, sh) ==
    CASE sh = "exact" -> m
      [] sh = "missing_row" -> SubSeq(m, 1, Len(m) - 1)
      [] sh = "short_rows" ->
            [n \in DOMAIN m |-> SubSeq(m[n], 1, Len(m[n]) - 1)]

\* No earlier run to compare with.
NoRun == [ran |-> FALSE, mask |-> <<>>, amount |-> <<>>]

\* The mask starting all false instead of all true.
InitialWFalse(n) == [k \in 1..n |-> Trivial(FALSE)]

InitialW(n) == [k \in 1..n |-> Trivial(TRUE)]
InitialS(n) == [k \in 1..n |-> Placeholder]
InitialAmount(n) == [k \in 1..n |-> Placeholder]

Init ==
    /\ bidder_count \in 0..MaxBidders
    /\ bid_bits \in 0..MaxBits
    /\ bid_amounts \in [1..bidder_count -> 0..(Pow2(bid_bits) - 1)]
    /\ seed \in Randomness
    /\ shape \in Shapes
    /\ shape = "missing_row" => bidder_count >= 1
    /\ shape = "short_rows" => bid_bits >= 1 /\ bidder_count >= 1
    /\ bids = Shaped(EncryptBids(bid_amounts, bid_bits, seed), shape)
    /\ w = <<>> /\ s = <<>> /\ amount = <<>>
    /\ b = None /\ b_not = None /\ c0 = None /\ c1 = None
    /\ i = 0 /\ j = 0
    /\ pc = "start"
    /\ andCalls = 0 /\ orCalls = 0 /\ notCalls = 0
    /\ faults = 0
    /\ placeholderUsed = FALSE
    /\ staleRead = FALSE
    /\ sWritten = {}
    /\ w_begin = <<>>
    /\ first = NoRun

----------------------------------------------------------------------------
\* Steps of auction_circuit

\* Step 1 skipping bidder 0.
SignalLoopStartOne == 0 + 1

\* Where the loop `for j in 0..bidder_count` of step 1 starts.
SignalLoopStart == 0

\* Where the body of `for i in 0..bid_bits` starts, or the return after it.
RoundEntry(round) ==
    IF round >= bid_bits THEN "done"
    ELSE IF SignalLoopStart >= bidder_count THEN "or_first"
    ELSE "signal"

\* let mut w / s / amount, then the head of the round loop
Allocate ==
    /\ pc = "start"
    /\ w' = InitialW(bidder_count)
    /\ s' = InitialS(bidder_count)
    /\ amount' = InitialAmount(bid_bits)
    /\ w_begin' = InitialW(bidder_count)
    /\ i' = 0 /\ j' = SignalLoopStart
    /\ pc' = RoundEntry(0)
    /\ UNCHANGED <<b, b_not, c0, c1, sWritten>>
    /\ UNCHANGED <<inputs, counters, faults, placeholderUsed, staleRead, first>>

\* Leaving the function without a value drops its vectors and locals.
Drop ==
    /\ w' = <<>> /\ s' = <<>> /\ amount' = <<>>
    /\ b' = None /\ b_not' = None /\ c0' = None /\ c1' = None
    /\ sWritten' = {} /\ w_begin' = <<>>
    /\ UNCHANGED <<i, j>>

\* The Err of a gate swallowed and the same call issued again.
GateFaultRetried ==
    /\ faults' = faults + 1
    /\ UNCHANGED <<pc, w, s, amount, b, b_not, c0, c1, i, j, sWritten, w_begin>>

\* `?` on an Err of a gate: return the error at once.
GateFault ==
    /\ faults' = faults + 1
    /\ pc' = "failed"
    /\ Drop

\* An index out of bounds, or what a gate does with a Placeholder.
Panic ==
    /\ pc' = "panicked"
    /\ Drop
    /\ UNCHANGED faults

Count(gate) ==
    /\ andCalls' = IF gate = "and" THEN andCalls + 1 ELSE andCalls
    /\ orCalls' = IF gate = "or" THEN orCalls + 1 ELSE orCalls
    /\ notCalls' = IF gate = "not" THEN notCalls + 1 ELSE notCalls

\* A call of a fallible gate on operands x and y: it returns Ok and the
\* function goes on (Continue), or it returns Err.  What the engine does
\* with a Placeholder operand is not fixed by this crate: an Err or a panic.
GateCall(gate, x, y, Continue) ==
    /\ Count(gate)
    /\ IF Real(x) /\ Real(y)
       THEN /\ UNCHANGED placeholderUsed
            /\ \/ Continue /\ UNCHANGED faults
               \/ GateFault
       ELSE /\ placeholderUsed' = TRUE
            /\ \/ GateFault
               \/ Panic

NoGate ==
    UNCHANGED <<counters, placeholderUsed, staleRead>>

\* The operands of step 1: &w[j], &bids[j][i]
SignalTerm == <<w[j + 1], bids[j + 1][i + 1]>>

\* s[j] = server_key.and(&w[j], &bids[j][i])?
SignalAnd ==
    /\ pc = "signal"
    /\ UNCHANGED <<inputs, first>>
    /\ IF j + 1 > Len(bids) \/ i + 1 > Len(bids[j + 1])
       THEN Panic /\ NoGate
       ELSE /\ UNCHANGED staleRead
            /\ GateCall("and", SignalTerm[1], SignalTerm[2],
                 /\ s' = [s EXCEPT ![j + 1] = GateAnd(SignalTerm[1], SignalTerm[2])]
                 /\ sWritten' = sWritten \cup {j}
                 /\ j' = IF j + 1 < bidder_count THEN j + 1 ELSE 0
                 /\ pc' = IF j + 1 < bidder_count THEN "signal" ELSE "or_first"
                 /\ UNCHANGED <<w, amount, b, b_not, c0, c1, i, w_begin>>)

\* The reduction loop starting one late (s[2] is left out) or one early
\* (s[1] is ORed in twice).
OrLoopStartLate == 2 + 1
OrLoopStartEarly == 2 - 1

\* Where the reduction loop `for j in 2..bidder_count` starts.
OrLoopStart == 2

\* let mut b = server_key.or(&s[0], &s[1])?
OrFirst ==
    /\ pc = "or_first"
    /\ UNCHANGED <<inputs, first>>
    /\ IF Len(s) < 2
       THEN Panic /\ NoGate
       ELSE /\ staleRead' = (staleRead \/ ~({0, 1} \subseteq sWritten))
            /\ GateCall("or", s[1], s[2],
                 /\ b' = GateOr(s[1], s[2])
                 /\ j' = IF OrLoopStart < bidder_count THEN OrLoopStart ELSE 0
                 /\ pc' = IF OrLoopStart < bidder_count THEN "or_loop" ELSE "not"
                 /\ UNCHANGED <<w, s, amount, b_not, c0, c1, i, sWritten, w_begin>>)

\* b = server_key.or(&b, &s[j])?
OrLoop ==
    /\ pc = "or_loop"
    /\ UNCHANGED <<inputs, first>>
    /\ staleRead' = (staleRead \/ j \notin sWritten)
    /\ GateCall("or", b, s[j + 1],
         /\ b' = GateOr(b, s[j + 1])
         /\ j' = IF j + 1 < bidder_count THEN j + 1 ELSE 0
         /\ pc' = IF j + 1 < bidder_count THEN "or_loop" ELSE "not"
         /\ UNCHANGED <<w, s, amount, b_not, c0, c1, i, sWritten, w_begin>>)

\* let b_not = server_key.not(&b): the call has no `?`, it cannot fail
Not ==
    /\ pc = "not"
    /\ Count("not")
    /\ placeholderUsed' = (placeholderUsed \/ ~Real(b))
    /\ b_not' = GateNot(b)
    /\ j' = 0
    /\ pc' = "mux_c0"
    /\ UNCHANGED <<w, s, amount, b, c0, c1, i, sWritten, w_begin>>
    /\ UNCHANGED <<inputs, faults, staleRead, first>>

\* c0 taken from the mask instead of the round signal.
TakeTermFromMask == <<b, w[j + 1]>>

\* The operands of c0: &b, &s[j]
TakeTerm == <<b, s[j + 1]>>

\* let c0 = server_key.and(&b, &s[j])?
MuxC0 ==
    /\ pc = "mux_c0"
    /\ UNCHANGED <<inputs, first>>
    /\ staleRead' = (staleRead \/ j \notin sWritten)
    /\ GateCall("and", TakeTerm[1], TakeTerm[2],
         /\ c0' = GateAnd(TakeTerm[1], TakeTerm[2])
         /\ pc' = "mux_c1"
         /\ UNCHANGED <<w, s, amount, b, b_not, c1, i, j, sWritten, w_begin>>)

\* c1 selected by b instead of b_not.
KeepTermNoNot == <<b, w[j + 1]>>

\* The operands of c1: &b_not, &w[j]
KeepTerm == <<b_not, w[j + 1]>>

\* let c1 = server_key.and(&b_not, &w[j])?
MuxC1 ==
    /\ pc = "mux_c1"
    /\ UNCHANGED <<inputs, first, staleRead>>
    /\ GateCall("and", KeepTerm[1], KeepTerm[2],
         /\ c1' = GateAnd(KeepTerm[1], KeepTerm[2])
         /\ pc' = "mux_or"
         /\ UNCHANGED <<w, s, amount, b, b_not, c0, i, j, sWritten, w_begin>>)

\* The new w[j] taking b_not itself instead of c1.
SelectTermNotB == <<c0, b_not>>

\* The operands of the new w[j]: &c0, &c1
SelectTerm == <<c0, c1>>

\* w[j] = server_key.or(&c0, &c1)?
MuxOr ==
    /\ pc = "mux_or"
    /\ UNCHANGED <<inputs, first, staleRead>>
    /\ GateCall("or", SelectTerm[1], SelectTerm[2],
         /\ w' = [w EXCEPT ![j + 1] = GateOr(SelectTerm[1], SelectTerm[2])]
         /\ c0' = None /\ c1' = None
         /\ j' = IF j + 1 < bidder_count THEN j + 1 ELSE 0
         /\ pc' = IF j + 1 < bidder_count THEN "mux_c0" ELSE "record"
         /\ UNCHANGED <<s, amount, b, b_not, i, sWritten, w_begin>>)

\* amount[i] = b, then the next round or Ok((w, amount))
Record ==
    /\ pc = "record"
    /\ amount' = [amount EXCEPT ![i + 1] = b]
    /\ b' = None /\ b_not' = None
    /\ sWritten' = {}
    /\ w_begin' = w
    /\ i' = i + 1
    /\ j' = SignalLoopStart
    /\ pc' = RoundEntry(i + 1)
    /\ UNCHANGED <<w, s, c0, c1>>
    /\ UNCHANGED <<inputs, counters, faults, placeholderUsed, staleRead, first>>

Next ==
    \/ Allocate
    \/ SignalAnd
    \/ OrFirst
    \/ OrLoop
    \/ Not
    \/ MuxC0
    \/ MuxC1
    \/ MuxOr
    \/ Record

Spec == Init /\ [][Next]_vars

\* The caller encrypts the same bids again with fresh randomness and calls
\* auction_circuit a second time, keeping what the first call decrypted to.
Rerun ==
    /\ pc = "done"
    /\ ~first.ran
    /\ first' = [ran |-> TRUE, mask |-> DecryptAll(w), amount |-> DecryptAll(amount)]
    /\ \E r \in Randomness \ {seed} :
         /\ seed' = r
         /\ bids' = Shaped(EncryptBids(bid_amounts, bid_bits, r), shape)
    /\ w' = <<>> /\ s' = <<>> /\ amount' = <<>> /\ w_begin' = <<>>
    /\ i' = 0 /\ j' = 0
    /\ pc' = "start"
    /\ andCalls' = 0 /\ orCalls' = 0 /\ notCalls' = 0
    /\ UNCHANGED <<bid_amounts, shape, bid_bits, bidder_count>>
    /\ UNCHANGED <<b, b_not, c0, c1, sWritten, faults, placeholderUsed, staleRead>>

NextRerun == Next \/ Rerun

SpecRerun == Init /\ [][NextRerun]_vars

----------------------------------------------------------------------------
\* What the caller of the test computes from the plaintext bids and from
\* the decrypted outputs

\* bids.iter().max()
ExpectedHighestBidAmount ==
    CHOOSE m \in {bid_amounts[k] : k \in DOMAIN bid_amounts} :
        \A k \in DOMAIN bid_amounts : bid_amounts[k] <= m

\* the indices whose bid is the highest
ExpectedHighestBidderIdentity ==
    {k \in DOMAIN bid_amounts : bid_amounts[k] = ExpectedHighestBidAmount}

RECURSIVE SumBits(_, _)
SumBits(cts, k) ==
    IF k = 0 THEN 0
    ELSE SumBits(cts, k - 1)
         + (IF Decrypt(cts[k]) THEN Pow2(Len(cts) - k) ELSE 0)

\* res_highest_bid_amount: the decrypted amount bits, most significant first
ResHighestBidAmount(cts) == SumBits(cts, Len(cts))

\* res_highest_bidder_identity: the indices whose mask bit decrypts to true
ResHighestBidderIdentity(cts) == {k \in DOMAIN cts : Decrypt(cts[k])}

----------------------------------------------------------------------------
\* Vocabulary of the properties

GateCalls == andCalls + orCalls + notCalls

AllReal(cts) == \A k \in DOMAIN cts : Real(cts[k])

\* The documented preconditions of the evaluation.
WellShaped ==
    /\ bidder_count >= 2
    /\ Len(bids) = bidder_count
    /\ \A n \in DOMAIN bids : Len(bids[n]) = bid_bits

Malformed == ~WellShaped

\* A round has just completed (or none has started): i rounds are done.
AtRoundBoundary ==
    \/ pc = "done"
    \/ pc = "signal" /\ j = 0 /\ sWritten = {}

Running == pc \notin {"start", "failed", "panicked"}

\* The value of the first r bits of a bid.
Prefix(bid, r) == bid \div Pow2(bid_bits - r)

\* C1: on a well-shaped input of n >= 2 bidders, once all rounds have run the
\* amount bits are real ciphertexts that decrypt, most significant first, to
\* the binary representation of the highest bid.
C1_WinningAmountIsMax ==
    (pc = "done" /\ WellShaped) =>
        /\ Len(amount) = bid_bits
        /\ AllReal(amount)
        /\ \A k \in 1..bid_bits :
             Decrypt(amount[k]) = (BitAt(ExpectedHighestBidAmount, k - 1, bid_bits) = 1)
        /\ ResHighestBidAmount(amount) = ExpectedHighestBidAmount

C1_Witness ==
    /\ pc = "done" /\ WellShaped
    /\ bidder_count = 3 /\ bid_bits = 2
    /\ bid_amounts = <<1, 2, 0>>
    /\ DecryptAll(amount) = <<TRUE, FALSE>>

\* C2: on a well-shaped input of n >= 2 bidders, once all rounds have run the
\* mask decrypts to true at exactly the bidders whose bid is the highest bid,
\* every tied bidder included.
C2_WinnerMaskIsArgMax ==
    (pc = "done" /\ WellShaped) =>
        /\ Len(w) = bidder_count
        /\ AllReal(w)
        /\ \A k \in 1..bidder_count :
             Decrypt(w[k]) <=> (bid_amounts[k] = ExpectedHighestBidAmount)
        /\ ResHighestBidderIdentity(w) = ExpectedHighestBidderIdentity

C2_Witness ==
    /\ pc = "done" /\ WellShaped
    /\ bidder_count = 3 /\ bid_bits = 2
    /\ bid_amounts = <<2, 1, 2>>
    /\ DecryptAll(w) = <<TRUE, FALSE, TRUE>>

\* C3: a gate call that returns an error ends the evaluation at once: it is
\* the only failed call, the function has returned the error with neither
\* mask nor amount, and no gate call is issued afterwards.
C3_GateFailureAborts ==
    /\ [](faults >= 1 =>
            /\ faults = 1
            /\ pc = "failed"
            /\ w = <<>> /\ amount = <<>>)
    /\ [][pc = "failed" => UNCHANGED <<pc, andCalls, orCalls, notCalls, faults>>]_vars

C3_Witness ==
    /\ pc = "failed" /\ faults = 1
    /\ WellShaped
    /\ i = 1
    /\ GateCalls > 5 * bidder_count

\* C4: on a malformed input no gate call is ever issued (the shape error is
\* reported first).
C4_NoGateOnMalformedInput ==
    Malformed => GateCalls = 0

C6_PrefixInvariant ==
    (AtRoundBoundary /\ WellShaped) =>
        \A k \in 1..bidder_count :
            /\ Decrypt(w[k]) <=>
                 (Prefix(bid_amounts[k], i) = Prefix(ExpectedHighestBidAmount, i))
            /\ ~Decrypt(w[k]) =>
                 (Prefix(bid_amounts[k], i) < Prefix(ExpectedHighestBidAmount, i))

C6_Witness ==
    /\ pc = "signal" /\ j = 0 /\ sWritten = {} /\ WellShaped
    /\ bid_bits = 2 /\ i = 1
    /\ bid_amounts = <<2, 1, 3>>
    /\ DecryptAll(w) = <<TRUE, FALSE, TRUE>>

\* C7: when the multiplexer loop of a round is over, s[k] is the round-start
\* w[k] AND bit i of bidder k, b is the OR of all s[k], the new w[k] is s[k]
\* if b is true and the round-start w[k] if b is false, and the bit then
\* stored in amount[i] is this b.
C7_MultiplexerStep ==
    /\ []((pc = "record" /\ WellShaped) =>
            /\ \A k \in 1..bidder_count :
                 /\ Decrypt(s[k]) = (Decrypt(w_begin[k]) /\ Decrypt(bids[k][i + 1]))
                 /\ Decrypt(w[k]) = (IF Decrypt(b) THEN Decrypt(s[k])
                                                   ELSE Decrypt(w_begin[k]))
            /\ Decrypt(b) = (\E k \in 1..bidder_count : Decrypt(s[k])))
    /\ [][(pc = "record" /\ WellShaped) => amount'[i + 1] = b]_vars

C7_Witness ==
    /\ pc = "record" /\ WellShaped
    /\ Decrypt(b)
    /\ \E k \in 1..bidder_count : Decrypt(w_begin[k]) /\ ~Decrypt(w[k])
    /\ \E k \in 1..bidder_count : Decrypt(w[k])

C7_WitnessKeep ==
    /\ pc = "record" /\ WellShaped
    /\ ~Decrypt(b)
    /\ \E k \in 1..bidder_count : ~Decrypt(w[k])
    /\ \E k \in 1..bidder_count : Decrypt(w[k])

\* C8: with n >= 2 bidders, i completed rounds have issued 3n*i AND calls,
\* (2n-1)*i OR calls and i NOT calls; within a round step 1 adds n ANDs, the
\* reduction n-1 ORs, step 3 one NOT and step 4 2n ANDs and n ORs; a
\* successful evaluation has issued bid_bits * 5n calls, none for bid_bits = 0.
C8_GateCost ==
    WellShaped =>
        /\ AtRoundBoundary =>
             /\ andCalls = 3 * bidder_count * i
             /\ orCalls = (2 * bidder_count - 1) * i
             /\ notCalls = i
        /\ pc = "or_first" =>
             /\ andCalls = 3 * bidder_count * i + bidder_count
             /\ orCalls = (2 * bidder_count - 1) * i
        /\ pc = "not" =>
             /\ andCalls = 3 * bidder_count * i + bidder_count
             /\ orCalls = (2 * bidder_count - 1) * i + (bidder_count - 1)
             /\ notCalls = i
        /\ pc = "record" =>
             /\ andCalls = 3 * bidder_count * (i + 1)
             /\ orCalls = (2 * bidder_count - 1) * (i + 1)
             /\ notCalls = i + 1
        /\ pc = "done" => GateCalls = bid_bits * (5 * bidder_count)

C8_Witness ==
    /\ pc = "done" /\ WellShaped
    /\ bidder_count = 3 /\ bid_bits = 2
    /\ andCalls = 18 /\ orCalls = 10 /\ notCalls = 2

\* C9: on a well-shaped input no Placeholder is ever an operand of a gate, no
\* s[j] is read before it is written in the same round, amount[k] is a real
\* ciphertext exactly for the rounds already recorded and is never written
\* again, and everything returned is a real ciphertext.
C9_PlaceholderDiscipline ==
    /\ [](WellShaped =>
            /\ ~placeholderUsed
            /\ ~staleRead
            /\ Running =>
                 \A k \in 1..bid_bits : Real(amount[k]) <=> (k <= i)
            /\ pc = "done" => (AllReal(w) /\ AllReal(amount)))
    /\ [][\A k \in DOMAIN amount :
             (WellShaped /\ Real(amount[k]) /\ k \in DOMAIN amount')
                 => amount'[k] = amount[k]]_vars

C9_Witness ==
    /\ pc = "done" /\ WellShaped
    /\ bidder_count = 3 /\ bid_bits = 2
    /\ AllReal(w) /\ AllReal(amount)
    /\ ~placeholderUsed /\ ~staleRead

\* C10: a bidder whose mask bit decrypts to false never gets a true bit
\* again, and after every round at least one mask bit decrypts to true.
C10_MaskShrinksNeverEmpty ==
    /\ []((AtRoundBoundary /\ WellShaped) => \E k \in 1..bidder_count : Decrypt(w[k]))
    /\ [][\A k \in DOMAIN w :
             (WellShaped /\ ~Decrypt(w[k]) /\ k \in DOMAIN w') => ~Decrypt(w'[k])]_vars

C10_Witness ==
    /\ pc = "done" /\ WellShaped
    /\ bid_bits = 2
    /\ bid_amounts = <<2, 0, 1>>
    /\ DecryptAll(w) = <<TRUE, FALSE, FALSE>>

====
